---------------------------- MODULE Spec2Model ----------------------------
(***************************************************************************)
(* Model of packet_sniffing/raw_socket_packet_sniffer.py: the receive loop *)
(* and the Ethernet / IPv4 / ICMP / TCP / UDP header parsers.              *)
(*                                                                         *)
(* A byte string (Python bytes) is a sequence over 0..255; index i of the  *)
(* Python object is element i+1 of the sequence.  Everything a parser      *)
(* prints for one frame is collected, in structured form, in the record    *)
(* `out`; an exception that leaves a parser is recorded in out.err with    *)
(* the function that raised it in out.errAt.                               *)
(***************************************************************************)
EXTENDS Integers, Sequences, FiniteSets, TLC

VARIABLES
    byteorder,  \* byte order of the host the interpreter runs on
    pc,         \* position of the program
    raw_data,   \* the bytes last returned by recvfrom / handed to a parser
    out         \* what the parsers printed (or raised) for raw_data

vars == <<byteorder, pc, raw_data, out>>

----------------------------------------------------------------------------
(* Program constants                                                       *)

ETH_LEN == 14

BUF_SIZE == 65565

----------------------------------------------------------------------------
(* Bounds of the model                                                     *)

\* number of payload bytes that follow the transport header in a built frame
MaxPayload == 3

\* number of 32-bit option words that may follow the fixed IPv4 header
MaxOptWords == 1

----------------------------------------------------------------------------
(* Python primitives                                                       *)

Min(a, b) == IF a < b THEN a ELSE b

\* s[a:b] for 0 <= a, 0 <= b
Slice(s, a, b) == SubSeq(s, Min(a, Len(s)) + 1, Min(b, Len(s)))

\* s[a:]
SliceFrom(s, a) == SubSeq(s, Min(a, Len(s)) + 1, Len(s))

RECURSIVE BitAnd(_, _)
\* a & b on non-negative integers
BitAnd(a, b) ==
    IF a = 0 \/ b = 0 THEN 0
    ELSE (a % 2) * (b % 2) + 2 * BitAnd(a \div 2, b \div 2)

\* a >> k
ShiftRight(a, k) == a \div (2 ^ k)

RECURSIVE BigEndian(_)
\* the unsigned integer a byte string denotes in network byte order
BigEndian(s) ==
    IF Len(s) = 0 THEN 0
    ELSE 256 * BigEndian(SubSeq(s, 1, Len(s) - 1)) + s[Len(s)]

\* struct: size in bytes of one item of a format string
FieldSize(c) ==
    CASE c = "B"  -> 1
      [] c = "H"  -> 2
      [] c = "L"  -> 4
      [] c = "4s" -> 4
      [] c = "6s" -> 6
      [] c = "2x" -> 2
      [] c = "8x" -> 8

RECURSIVE calcsize(_)
\* struct.calcsize of a "!" (network order, no alignment) format
calcsize(fmt) ==
    IF fmt = <<>> THEN 0 ELSE FieldSize(Head(fmt)) + calcsize(Tail(fmt))

RECURSIVE UnpackFields(_, _)
\* the values of the items of fmt read from buf; a 32-bit item, which may
\* exceed the range of TLC's 32-bit integers, is kept as its two 16-bit
\* halves: the value is hi * 65536 + lo
UnpackFields(fmt, buf) ==
    IF fmt = <<>> THEN <<>>
    ELSE LET c    == Head(fmt)
             n    == FieldSize(c)
             rest == UnpackFields(Tail(fmt), SubSeq(buf, n + 1, Len(buf)))
         IN  CASE c \in {"2x", "8x"} -> rest
               [] c \in {"4s", "6s"} -> <<SubSeq(buf, 1, n)>> \o rest
               [] c = "L" -> <<[hi |-> BigEndian(SubSeq(buf, 1, 2)),
                               lo |-> BigEndian(SubSeq(buf, 3, 4))]>> \o rest
               [] OTHER              -> <<BigEndian(SubSeq(buf, 1, n))>> \o rest

\* struct.unpack("!...", buf): struct.error unless len(buf) is the format's size
unpack(fmt, buf) ==
    IF Len(buf) # calcsize(fmt)
    THEN [ok |-> FALSE, v |-> <<>>]
    ELSE [ok |-> TRUE,  v |-> UnpackFields(fmt, buf)]

\* socket.htons: swaps the two bytes on a little-endian host, identity on a
\* big-endian one
htons(x, order) ==
    IF order = "little" THEN (x % 256) * 256 + (x \div 256) ELSE x

HexDigits == <<"0", "1", "2", "3", "4", "5", "6", "7",
               "8", "9", "a", "b", "c", "d", "e", "f">>

\* "%.2x" % b
Hex2(b) == <<HexDigits[(b \div 16) + 1], HexDigits[(b % 16) + 1]>>

DecDigits == <<"0", "1", "2", "3", "4", "5", "6", "7", "8", "9">>

RECURSIVE str(_)
\* str(n) for n >= 0, as a sequence of characters
str(n) ==
    IF n < 10 THEN <<DecDigits[n + 1]>>
    ELSE str(n \div 10) \o <<DecDigits[(n % 10) + 1]>>

RECURSIVE join(_, _)
\* sep.join(parts)
join(sep, parts) ==
    IF parts = <<>> THEN <<>>
    ELSE IF Len(parts) = 1 THEN parts[1]
    ELSE parts[1] \o sep \o join(sep, Tail(parts))

\* code point of the hexadecimal digit d, lower case
HexCode(d) == IF d < 10 THEN 48 + d ELSE 87 + d

InRange(s, j, lo, hi) == j <= Len(s) /\ s[j] >= lo /\ s[j] <= hi

Cont(s, j) == InRange(s, j, 128, 191)

\* length of the well-formed UTF-8 sequence that starts at s[i], 0 if none does
Utf8SeqLen(s, i) ==
    LET b == s[i] IN
    CASE b <= 127 -> 1
      [] b >= 194 /\ b <= 223 /\ Cont(s, i + 1) -> 2
      [] b = 224 /\ InRange(s, i + 1, 160, 191) /\ Cont(s, i + 2) -> 3
      [] b >= 225 /\ b <= 236 /\ Cont(s, i + 1) /\ Cont(s, i + 2) -> 3
      [] b = 237 /\ InRange(s, i + 1, 128, 159) /\ Cont(s, i + 2) -> 3
      [] b >= 238 /\ b <= 239 /\ Cont(s, i + 1) /\ Cont(s, i + 2) -> 3
      [] b = 240 /\ InRange(s, i + 1, 144, 191) /\ Cont(s, i + 2)
                 /\ Cont(s, i + 3) -> 4
      [] b >= 241 /\ b <= 243 /\ Cont(s, i + 1) /\ Cont(s, i + 2)
                 /\ Cont(s, i + 3) -> 4
      [] b = 244 /\ InRange(s, i + 1, 128, 143) /\ Cont(s, i + 2)
                 /\ Cont(s, i + 3) -> 4
      [] OTHER -> 0

\* the code point of the well-formed n-byte sequence at s[i]
CodePoint(s, i, n) ==
    CASE n = 1 -> s[i]
      [] n = 2 -> (s[i] - 192) * 64 + (s[i + 1] - 128)
      [] n = 3 -> (s[i] - 224) * 4096 + (s[i + 1] - 128) * 64 + (s[i + 2] - 128)
      [] n = 4 -> (s[i] - 240) * 262144 + (s[i + 1] - 128) * 4096
                  + (s[i + 2] - 128) * 64 + (s[i + 3] - 128)

RECURSIVE DecodeFrom(_, _)
DecodeFrom(s, i) ==
    IF i > Len(s) THEN <<>>
    ELSE LET n == Utf8SeqLen(s, i) IN
         IF n = 0
         THEN <<92, 120, HexCode(s[i] \div 16), HexCode(s[i] % 16)>>
              \o DecodeFrom(s, i + 1)
         ELSE <<CodePoint(s, i, n)>> \o DecodeFrom(s, i + n)

\* s.decode('UTF-8', 'backslashreplace'), as a sequence of code points: a byte
\* that starts no well-formed sequence becomes the four characters \xNN
decode(s) == DecodeFrom(s, 1)

----------------------------------------------------------------------------
(* The parsers.  Each takes the record of what was printed so far for the  *)
(* frame and returns it extended by its own prints, or with the exception  *)
(* it raised.                                                              *)

NoOut ==
    [calls |-> <<>>, eth |-> <<>>, ip |-> <<>>, icmp |-> <<>>, tcp |-> <<>>,
     udp |-> <<>>, other |-> FALSE, err |-> "none", errAt |-> "none"]

Call(o, fn, arg) == [o EXCEPT !.calls = Append(@, [fn |-> fn, arg |-> arg])]

Raise(o, exc, fn) == [o EXCEPT !.err = exc, !.errAt = fn]

get_mac_addr(a) ==
    join(<<":">>, <<Hex2(a[1]), Hex2(a[2]), Hex2(a[3]),
                    Hex2(a[4]), Hex2(a[5]), Hex2(a[6])>>)

parse_udp_packet(data, o0) ==
    LET o          == Call(o0, "parse_udp_packet", data)
        udp_header == unpack(<<"H", "H", "H", "H">>, Slice(data, 0, 8))
    IN  IF ~udp_header.ok THEN Raise(o, "struct.error", "parse_udp_packet")
        ELSE [o EXCEPT !.udp = <<[source_port |-> udp_header.v[1],
                                  destination_port |-> udp_header.v[2],
                                  length |-> udp_header.v[2],
                                  checksum |-> udp_header.v[3],
                                  payload |-> SliceFrom(data, 8),
                                  data |-> decode(SliceFrom(data, 8))]>>]

\* the mask applied and the shift forgotten: the flag comes out as its mask
Flag_unshifted(offset, mask, shift) == BitAnd(offset, mask)

\* (offset & mask) >> shift, the form of each of the six flag extractions
Flag(offset, mask, shift) == ShiftRight(BitAnd(offset, mask), shift)

parse_tcp_packet(data, o0) ==
    LET o           == Call(o0, "parse_tcp_packet", data)
        tcp_header  == unpack(<<"H", "H", "L", "L", "H">>, Slice(data, 0, 14))
        offset      == tcp_header.v[5]
        data_offset == ShiftRight(offset, 12) * 4
    IN  IF ~tcp_header.ok THEN Raise(o, "struct.error", "parse_tcp_packet")
        ELSE [o EXCEPT !.tcp = <<[source_port |-> tcp_header.v[1],
                                  destination_port |-> tcp_header.v[2],
                                  sequence_number |-> tcp_header.v[3],
                                  acknowledgment_number |-> tcp_header.v[4],
                                  data_offset |-> data_offset,
                                  flag_URG |-> Flag(offset, 32, 5),
                                  flag_ACK |-> Flag(offset, 16, 4),
                                  flag_PSH |-> Flag(offset, 8, 3),
                                  flag_RST |-> Flag(offset, 4, 2),
                                  flag_SYN |-> Flag(offset, 2, 1),
                                  flag_FIN |-> Flag(offset, 1, 0),
                                  payload |-> SliceFrom(data, data_offset),
                                  data |-> decode(SliceFrom(data, data_offset))]>>]

parse_icmp_packet(data, o0) ==
    LET o           == Call(o0, "parse_icmp_packet", data)
        imcp_header == unpack(<<"B", "B", "H">>, Slice(data, 0, 4))
    IN  IF ~imcp_header.ok THEN Raise(o, "struct.error", "parse_icmp_packet")
        ELSE [o EXCEPT !.icmp = <<[type |-> imcp_header.v[1],
                                   code |-> imcp_header.v[2],
                                   checksum |-> imcp_header.v[3],
                                   payload |-> SliceFrom(data, 8),
                                   data |-> decode(SliceFrom(data, 8))]>>]

\* the protocol numbers of TCP and UDP exchanged
Dispatch_swapped(protocol, data, o) ==
    IF protocol = 1 THEN parse_icmp_packet(data, o)
    ELSE IF protocol = 17 THEN parse_tcp_packet(data, o)
    ELSE IF protocol = 6 THEN parse_udp_packet(data, o)
    ELSE [o EXCEPT !.other = TRUE]

\* the branch of parse_ipv4_header on the protocol field
Dispatch(protocol, data, o) ==
    IF protocol = 1 THEN parse_icmp_packet(data, o)
    ELSE IF protocol = 6 THEN parse_tcp_packet(data, o)
    ELSE IF protocol = 17 THEN parse_udp_packet(data, o)
    ELSE [o EXCEPT !.other = TRUE]

\* the header taken to be the fixed 20 bytes, whatever the IHL field says
HeaderLength_fixed(version_and_IHL) == 20

\* the offset at which parse_ipv4_header cuts the transport data
HeaderLength(version_and_IHL) == BitAnd(version_and_IHL, 15) * 4

parse_ipv4_header(ip_data, o0) ==
    LET o == Call(o0, "parse_ipv4_header", ip_data) IN
    IF Len(ip_data) = 0 THEN Raise(o, "IndexError", "parse_ipv4_header")
    ELSE
    LET version_and_IHL == ip_data[1]
        version         == ShiftRight(version_and_IHL, 4)
        ihl             == HeaderLength(version_and_IHL)
        u == unpack(<<"8x", "B", "B", "2x", "4s", "4s">>, Slice(ip_data, 0, 20))
    IN  IF ~u.ok THEN Raise(o, "struct.error", "parse_ipv4_header")
        ELSE
        LET ttl      == u.v[1]
            protocol == u.v[2]
            src      == u.v[3]
            dest     == u.v[4]
            printed  ==
                [o EXCEPT !.ip = <<[version |-> version, ihl |-> ihl,
                    ttl |-> ttl, protocol |-> protocol,
                    src_addr |-> join(<<".">>, [i \in 1..4 |-> str(src[i])]),
                    dest_addr |-> join(<<".">>, [i \in 1..4 |-> str(dest[i])])]>>]
        IN  Dispatch(protocol, SliceFrom(ip_data, ihl), printed)

\* only the two addresses unpacked, from the first 12 bytes
parse_ethernet_header_addrs(data, order, o0) ==
    LET o          == Call(o0, "parse_ethernet_header", data)
        mac_header == Slice(data, 0, 12)
        mac_addrs  == unpack(<<"6s", "6s">>, mac_header)
    IN  IF ~mac_addrs.ok THEN Raise(o, "struct.error", "parse_ethernet_header")
        ELSE [o EXCEPT !.eth = <<[mac_header |-> mac_header,
                                  dest |-> get_mac_addr(mac_addrs.v[1]),
                                  source |-> get_mac_addr(mac_addrs.v[2]),
                                  prototype |-> 0]>>]

parse_ethernet_header(data, order, o0) ==
    LET o          == Call(o0, "parse_ethernet_header", data)
        mac_header == Slice(data, 0, ETH_LEN)
        mac_addrs  == unpack(<<"6s", "6s", "H">>, mac_header)
    IN  IF ~mac_addrs.ok THEN Raise(o, "struct.error", "parse_ethernet_header")
        ELSE [o EXCEPT !.eth = <<[mac_header |-> mac_header,
                                  dest |-> get_mac_addr(mac_addrs.v[1]),
                                  source |-> get_mac_addr(mac_addrs.v[2]),
                                  prototype |-> htons(mac_addrs.v[3], order)]>>]

\* one pass through the body of the loop of receive_packet, for the frame the
\* socket delivers
LoopBody(frame, order) ==
    LET data         == Slice(frame, 0, BUF_SIZE)
        ether_header == parse_ethernet_header(data, order, NoOut)
    IN  IF ether_header.err # "none" THEN ether_header
        ELSE IF ether_header.eth[1].prototype = 8
        THEN parse_ipv4_header(SliceFrom(data, ETH_LEN), ether_header)
        ELSE ether_header

----------------------------------------------------------------------------
(* Inputs: frames as they arrive from the wire, built layer by layer and   *)
(* cut at every length, so that every header is seen whole, truncated and  *)
(* with each of the length fields below.                                   *)

ByteOrders == {"little", "big"}

\* bytes 12-13 of the frame: IPv4, the same two bytes swapped, IPv6
EtherTypeBytes == {<<8, 0>>, <<0, 8>>, <<134, 221>>}

\* byte 0 of the IPv4 header: version 4 with IHL 5, 6, 0, 4 and 15; version 6
VersionIhlBytes == {69, 70, 64, 68, 79, 101}

\* byte 9 of the IPv4 header: ICMP, TCP, UDP and an unassigned protocol
ProtocolBytes == {1, 6, 17, 99}

\* byte 12 of the TCP header: data offset 5, 6, 0, 4 and 15
DataOffsetBytes == {80, 96, 0, 64, 240}

\* byte 13 of the TCP header: SYN, SYN+ACK, all six flags, the two high bits
FlagBytes == {2, 18, 63, 192}

Byte == 0..255

EthHeader(et) ==
    <<255, 255, 255, 255, 255, 255, 0, 17, 34, 51, 68, 85>> \o et

IpFixed(b0, proto) ==
    <<b0, 0, 0, 60, 28, 70, 64, 0, 64, proto, 177, 230,
      192, 168, 1, 10, 10, 0, 0, 255>>

\* w option words: NOP NOP NOP EOL
IpOptions(w) == [i \in 1..(4 * w) |-> IF i % 4 = 0 THEN 0 ELSE 1]

\* 20 bytes read as a TCP header, or their first 8 as a UDP or ICMP header
TransportHeader(b12, b13) ==
    <<0, 53, 4, 210, 0, 12, 171, 205, 0, 0, 0, 2, b12, b13,
      114, 16, 254, 48, 0, 0>>

PayloadPattern == <<104, 195, 169, 255, 105, 226, 130, 172>>

Payload(n) == [i \in 1..n |-> PayloadPattern[((i - 1) % Len(PayloadPattern)) + 1]]

Prefixes(s) == {SubSeq(s, 1, n) : n \in 0..Len(s)}

Segment(b12, b13) == TransportHeader(b12, b13) \o Payload(MaxPayload)

Datagram(b0, proto, w, b12, b13) ==
    IpFixed(b0, proto) \o IpOptions(w) \o Segment(b12, b13)

\* the frames the socket delivers to the loop
Frames ==
    UNION {Prefixes(EthHeader(et) \o Datagram(b0, proto, 0, 80, 18)) :
             et \in EtherTypeBytes, b0 \in {69, 64}, proto \in ProtocolBytes}

\* the inputs of parse_ipv4_header
IpInputs ==
    UNION {Prefixes(Datagram(b0, proto, w, b12, 18)) :
             b0 \in VersionIhlBytes, proto \in ProtocolBytes,
             w \in 0..MaxOptWords, b12 \in DataOffsetBytes}

\* the inputs of the three transport parsers
TransportInputs ==
    UNION {Prefixes(Segment(b12, b13)) :
             b12 \in DataOffsetBytes, b13 \in FlagBytes}

\* the inputs of parse_tcp_packet that range over bytes 12 and 13
FlagInputs == {Segment(b12, b13) : b12 \in Byte, b13 \in Byte}

EthInputs ==
    UNION {Prefixes(EthHeader(et) \o Payload(MaxPayload)) : et \in EtherTypeBytes}

----------------------------------------------------------------------------
(* The program: create_socket has succeeded, receive_packet loops.         *)

Init ==
    /\ byteorder \in ByteOrders
    /\ pc = "recvfrom"
    /\ raw_data = <<>>
    /\ out = NoOut

\* LoopBody tabulated over the hosts and the frames
Decoded ==
    [order \in ByteOrders |-> [frame \in Frames |-> LoopBody(frame, order)]]

\* one iteration of the loop: recvfrom, parse, and back to recvfrom; an
\* exception leaves the loop, the function and the program
receive_packet ==
    /\ pc = "recvfrom"
    /\ \E frame \in Frames :
         LET o == Decoded[byteorder][frame] IN
         /\ raw_data' = Slice(frame, 0, BUF_SIZE)
         /\ out' = o
         /\ pc' = IF o.err = "none" THEN "recvfrom" ELSE "exited"
    /\ UNCHANGED byteorder

Next == receive_packet

Spec == Init /\ [][Next]_vars

----------------------------------------------------------------------------
(* The parsers on their own: one call of one parser on one input.          *)

InitParsers ==
    /\ byteorder \in ByteOrders
    /\ out = NoOut
    /\ \/ pc = "parse_ethernet_header" /\ raw_data \in EthInputs
       \/ pc = "parse_ipv4_header" /\ raw_data \in IpInputs
       \/ pc = "parse_icmp_packet" /\ raw_data \in TransportInputs
       \/ pc = "parse_tcp_packet" /\ raw_data \in TransportInputs \cup FlagInputs
       \/ pc = "parse_udp_packet" /\ raw_data \in TransportInputs

Return(o) ==
    /\ out' = o
    /\ pc' = IF o.err = "none" THEN "returned" ELSE "raised"
    /\ UNCHANGED <<byteorder, raw_data>>

CallEthernet ==
    pc = "parse_ethernet_header"
    /\ Return(parse_ethernet_header(raw_data, byteorder, NoOut))

CallIpv4 == pc = "parse_ipv4_header" /\ Return(parse_ipv4_header(raw_data, NoOut))

CallIcmp == pc = "parse_icmp_packet" /\ Return(parse_icmp_packet(raw_data, NoOut))

CallTcp == pc = "parse_tcp_packet" /\ Return(parse_tcp_packet(raw_data, NoOut))

CallUdp == pc = "parse_udp_packet" /\ Return(parse_udp_packet(raw_data, NoOut))

NextParsers == CallEthernet \/ CallIpv4 \/ CallIcmp \/ CallTcp \/ CallUdp

SpecParsers == InitParsers /\ [][NextParsers]_vars

----------------------------------------------------------------------------
(* Properties.  They are stated on the bytes of the input and on what was  *)
(* printed, not on the parsers' definitions.                               *)

TransportFns == {"parse_icmp_packet", "parse_tcp_packet", "parse_udp_packet"}

\* the calls made so far, for the current input, to the functions in F
CallsTo(F) == SelectSeq(out.calls, LAMBDA c : c.fn \in F)

Called(fn) == CallsTo({fn}) # <<>>

\* the argument of the call to fn
ArgOf(fn) == CallsTo({fn})[1].arg

RaisedIn(fn) == out.err # "none" /\ out.errAt = fn

\* bit k of b
Bit(b, k) == (b \div (2 ^ k)) % 2

\* the 16-bit big-endian value at offset off of d
U16(d, off) == d[off + 1] * 256 + d[off + 2]

Dotted(d, off) ==
    join(<<".">>, <<str(d[off + 1]), str(d[off + 2]),
                    str(d[off + 3]), str(d[off + 4])>>)

\* C1: a decode failure on one frame aborts that frame only: whenever the
\* decoding of a frame has failed (at any layer), the loop is back at recvfrom,
\* ready to fetch and decode the frames that follow; it never stops because of
\* a malformed or truncated frame.
C1_FailureNeverStopsLoop == out.err # "none" => pc = "recvfrom"

\* C2: a frame of fewer than 14 bytes (the empty frame included) fails in the
\* Ethernet parser with the error of a too short buffer; no Ethernet header is
\* printed, and neither the IPv4 parser nor a transport parser is entered.
C2_ShortFrameFailsAtEthernet ==
    (Called("parse_ethernet_header") /\ Len(ArgOf("parse_ethernet_header")) < 14)
    => /\ out.err = "struct.error"
       /\ out.errAt = "parse_ethernet_header"
       /\ out.eth = <<>> /\ out.ip = <<>>
       /\ out.icmp = <<>> /\ out.tcp = <<>> /\ out.udp = <<>>
       /\ ~out.other
       /\ Len(out.calls) = 1

\* a 13-byte frame was received and the Ethernet parser raised on it
C2_Witness ==
    /\ Len(raw_data) = 13
    /\ Called("parse_ethernet_header")
    /\ RaisedIn("parse_ethernet_header")
    /\ pc = "exited"

\* C3: the IPv4 parser validates the header length before slicing: when the
\* low nibble of byte 0 is less than 5, or four times it exceeds the bytes
\* available, the parser fails and no transport parser is invoked.
C3_HeaderLengthValidated ==
    (Called("parse_ipv4_header") /\ Len(ArgOf("parse_ipv4_header")) >= 1)
    => LET d == ArgOf("parse_ipv4_header")
           w == d[1] % 16
       IN  (w < 5 \/ 4 * w > Len(d))
           => RaisedIn("parse_ipv4_header") /\ CallsTo(TransportFns) = <<>>

\* C4: the transport parser is selected by byte 9 of the IPv4 header alone:
\* 1 invokes the ICMP parser, 6 the TCP parser, 17 the UDP parser, any other
\* value ends the IPv4 layer with no transport parser and no error; at most
\* one transport parser is invoked for an input.
C4_DispatchByProtocol ==
    LET tc == CallsTo(TransportFns) IN
    /\ Len(tc) <= 1
    /\ out.ip # <<>>
       => LET p == ArgOf("parse_ipv4_header")[10] IN
          /\ p = 1 => Len(tc) = 1 /\ tc[1].fn = "parse_icmp_packet"
          /\ p = 6 => Len(tc) = 1 /\ tc[1].fn = "parse_tcp_packet"
          /\ p = 17 => Len(tc) = 1 /\ tc[1].fn = "parse_udp_packet"
          /\ p \notin {1, 6, 17} => tc = <<>> /\ out.other /\ out.err = "none"
          /\ out.other => p \notin {1, 6, 17}

\* an IPv4 header with protocol 99 was parsed: no transport parser, no error
C4_Witness ==
    /\ out.ip # <<>>
    /\ ArgOf("parse_ipv4_header")[10] = 99
    /\ out.other
    /\ CallsTo(TransportFns) = <<>>
    /\ pc = "returned"

\* C5: for a frame of at least 14 bytes the etherType reported is the
\* big-endian value of bytes 12-13 (08 00 gives 0x0800 = 2048), the IPv4 parser
\* is entered, on the bytes from offset 14, exactly when that value is 0x0800,
\* and any other etherType ends the frame without an error.
C5_EtherTypeHostOrder ==
    (Called("parse_ethernet_header") /\ Len(ArgOf("parse_ethernet_header")) >= 14)
    => LET d  == ArgOf("parse_ethernet_header")
           et == U16(d, 12)
       IN  /\ out.eth # <<>>
           /\ out.eth[1].prototype = et
           /\ Called("parse_ipv4_header") <=> et = 2048
           /\ Called("parse_ipv4_header")
              => ArgOf("parse_ipv4_header") = SubSeq(d, 15, Len(d))
           /\ et # 2048 => out.err = "none"

\* C6: the TCP header length is four times the top nibble of byte 12 and the
\* payload is the bytes from that offset on; when that length is less than 20
\* or more than the bytes available, the parser fails and prints no payload.
C6_DataOffsetValidated ==
    (Called("parse_tcp_packet") /\ Len(ArgOf("parse_tcp_packet")) >= 13)
    => LET d  == ArgOf("parse_tcp_packet")
           hl == (d[13] \div 16) * 4
       IN  IF hl < 20 \/ hl > Len(d)
           THEN RaisedIn("parse_tcp_packet") /\ out.tcp = <<>>
           ELSE out.tcp # <<>>
                => /\ out.tcp[1].data_offset = hl
                   /\ out.tcp[1].payload = SubSeq(d, hl + 1, Len(d))

\* C7: each transport parser rejects an input shorter than its fixed header:
\* ICMP and UDP fail on fewer than 8 bytes, TCP on fewer than 20, and then no
\* header field and no payload is printed.
C7_ShortTransportRejected ==
    /\ (Called("parse_icmp_packet") /\ Len(ArgOf("parse_icmp_packet")) < 8)
       => RaisedIn("parse_icmp_packet") /\ out.icmp = <<>>
    /\ (Called("parse_udp_packet") /\ Len(ArgOf("parse_udp_packet")) < 8)
       => RaisedIn("parse_udp_packet") /\ out.udp = <<>>
    /\ (Called("parse_tcp_packet") /\ Len(ArgOf("parse_tcp_packet")) < 20)
       => RaisedIn("parse_tcp_packet") /\ out.tcp = <<>>

\* C8: for a UDP input of at least 8 bytes the four fields printed are the
\* big-endian values of bytes 0-1 (source port), 2-3 (destination port), 4-5
\* (length) and 6-7 (checksum), and the payload is the bytes from offset 8 on,
\* whatever the length field says.
C8_UdpFields ==
    (Called("parse_udp_packet") /\ Len(ArgOf("parse_udp_packet")) >= 8)
    => LET d == ArgOf("parse_udp_packet") IN
       /\ out.udp # <<>>
       /\ out.udp[1].source_port = U16(d, 0)
       /\ out.udp[1].destination_port = U16(d, 2)
       /\ out.udp[1].length = U16(d, 4)
       /\ out.udp[1].checksum = U16(d, 6)
       /\ out.udp[1].payload = SubSeq(d, 9, Len(d))

\* C9: for an IPv4 input whose header length is valid (at least 5 words and
\* within the input) the bytes handed to the transport parser are exactly the
\* input from offset 4 * IHL on, while TTL, protocol, source and destination
\* address are those of bytes 8, 9, 12-15 and 16-19 whatever the IHL is.
C9_TransportOffset ==
    (Called("parse_ipv4_header") /\ Len(ArgOf("parse_ipv4_header")) >= 20)
    => LET d  == ArgOf("parse_ipv4_header")
           w  == d[1] % 16
           tc == CallsTo(TransportFns)
       IN  (w >= 5 /\ 4 * w <= Len(d))
           => /\ out.ip # <<>>
              /\ out.ip[1].ttl = d[9]
              /\ out.ip[1].protocol = d[10]
              /\ out.ip[1].src_addr = Dotted(d, 12)
              /\ out.ip[1].dest_addr = Dotted(d, 16)
              /\ d[10] \in {1, 6, 17}
                 => /\ Len(tc) = 1
                    /\ Len(tc[1].arg) = Len(d) - 4 * w
                    /\ \A i \in 1..Len(tc[1].arg) : tc[1].arg[i] = d[4 * w + i]

\* an IPv4 header of 6 words with an option word was parsed and the transport
\* parser got the bytes from offset 24 on
C9_Witness ==
    /\ Called("parse_ipv4_header")
    /\ Len(ArgOf("parse_ipv4_header")) > 24
    /\ ArgOf("parse_ipv4_header")[1] % 16 = 6
    /\ CallsTo(TransportFns) # <<>>
    /\ CallsTo(TransportFns)[1].arg
         = SubSeq(ArgOf("parse_ipv4_header"), 25, Len(ArgOf("parse_ipv4_header")))
    /\ out.ip[1].ttl = 64

\* C10: each of URG, ACK, PSH, RST, SYN, FIN printed by the TCP parser is bit
\* 5, 4, 3, 2, 1, 0 of byte 13, that is 0 or 1, whatever the other bits of
\* byte 13 and whatever byte 12 are.
C10_FlagsPerBit ==
    out.tcp # <<>>
    => LET b == ArgOf("parse_tcp_packet")[14]
           t == out.tcp[1]
       IN  /\ t.flag_URG = Bit(b, 5)
           /\ t.flag_ACK = Bit(b, 4)
           /\ t.flag_PSH = Bit(b, 3)
           /\ t.flag_RST = Bit(b, 2)
           /\ t.flag_SYN = Bit(b, 1)
           /\ t.flag_FIN = Bit(b, 0)
           /\ {t.flag_URG, t.flag_ACK, t.flag_PSH,
               t.flag_RST, t.flag_SYN, t.flag_FIN} \subseteq {0, 1}

\* control byte 0b00010010 under a byte 12 of all ones: SYN and ACK only
C10_Witness ==
    /\ out.tcp # <<>>
    /\ ArgOf("parse_tcp_packet")[13] = 255
    /\ ArgOf("parse_tcp_packet")[14] = 18
    /\ out.tcp[1].flag_SYN = 1 /\ out.tcp[1].flag_ACK = 1
    /\ out.tcp[1].flag_URG = 0 /\ out.tcp[1].flag_PSH = 0
    /\ out.tcp[1].flag_RST = 0 /\ out.tcp[1].flag_FIN = 0
=============================================================================
